---- MODULE Spec2Model ----
(***************************************************************************)
(* The peer-mesh session layer of the gallery client                       *)
(* (src/unnamed/part_002, component Gallery): PeerJS peers, data           *)
(* connections, peer discovery, avatar records and the shared canvases.    *)
(*                                                                         *)
(* One browser is one Node.  Everything the client keeps in refs           *)
(* (connectionsRef, pendingConnectionsRef, knownPeersRef, playerModelsRef),*)
(* in localStorage (canvas-<id>) and in setTimeout callbacks is state;     *)
(* every PeerJS event handler and timer callback is one action.            *)
(***************************************************************************)
EXTENDS Integers, Sequences, FiniteSets, TLC

\* ------------------------------------------------------------------ bounds
MaxGen     == 2   \* Peer objects one browser creates (start + forceReconnect)
MaxAttempts == 4  \* peer.connect() calls one node makes for one id by retrying
MaxConns   == 5   \* DataConnection objects in the connection scenarios
MaxPos     == 1   \* avatar positions are 0..MaxPos
MaxCommits == 2   \* drawings saved in the canvas scenarios
MaxTicks   == 1   \* clock ticks after StartTime in the canvas scenarios
MaxColor   == 1   \* colours are 0..MaxColor
AgeWindow  == 2   \* ages within this many ms of the expiry are tried
MaxGap     == 34  \* longest time between two frames, ms
MaxTime    == 210 \* frames run until performance.now() reaches this, ms

Node     == {"A", "B", "C", "D"}
PeerIds  == Node \X (1..MaxGen)      \* `gallery-<random>-<time>`, one per Peer object
Pos      == 0..MaxPos
Colors   == 0..MaxColor

\* `playerColor`, the colour setupPeerConnection draws for the node's own model.
playerColor == 0
CanvasSeq == <<"north-0", "south-0">>   \* the first canvases placeCanvases creates
CanvasIds == {CanvasSeq[i] : i \in 1..Len(CanvasSeq)}

\* A canvas message whose payload has no canvasId.
NoCanvasId == ""

\* The empty string: the initial value of the React state `myId`.
NoId == <<"", 0>>

\* `myId` as the session code reads it.  Every function of the session layer
\* is defined inside the effect `useEffect(() => {...}, [username])`, which
\* runs once, in the first render, where the state `myId` is "".  setMyId()
\* re-renders the component but the effect is not re-run, so the closures keep
\* reading "" for the life of the component.
myId == NoId

VARIABLES
    peerGen,       \* [Node -> 0..MaxGen]  Peer objects created so far (0: not mounted)
    peerOpen,      \* [Node -> BOOLEAN]    peerRef.current has had its "open" event
    url,           \* [Node -> Seq(PeerIds)] the ids of the `p` query parameter
    knownPeers,    \* [Node -> SUBSET PeerIds]      knownPeersRef.current
    playerModels,  \* [Node -> [ids -> avatar]]     playerModelsRef.current / players
    conns,         \* Seq of DataConnection objects, in creation order
    connections,   \* [Node -> [PeerIds -> index into conns, 0: no entry]]
    pending,       \* [Node -> SUBSET PeerIds]      pendingConnectionsRef.current
    timers,        \* set of setTimeout callbacks not yet run
    store,         \* [Node -> [CanvasIds -> [img, ts]]]  localStorage canvas-<id>
    requested,     \* [Node -> BOOLEAN]  localStorage canvas-data-requested
    loading,       \* set of Image objects whose onload has not run yet
    now,           \* Date.now()
    commits,       \* history: the drawings saved, [node, canvasId, ts, seenBy]
    calls,         \* history: the connectToPeerById calls of the last step
    prevTime,      \* [Node -> Nat]  performance.now() at the last animate()
    lastUpdateTime, \* [Node -> Nat] `lastUpdateTime` of the animation loop
    lastSent       \* history: [Node -> Nat] time of the last "playerMove" sent (0: none)

vars == <<peerGen, peerOpen, url, knownPeers, playerModels, conns, connections,
          pending, timers, store, requested, loading, now, commits, calls,
          prevTime, lastUpdateTime, lastSent>>

meshVars   == <<peerGen, peerOpen, url, knownPeers, playerModels, conns,
                connections, pending, timers>>
canvasVars == <<store, requested, loading, now, commits>>
frameVars  == <<prevTime, lastUpdateTime, lastSent>>

\* ----------------------------------------------------------------- helpers
IdOf(n) == <<n, peerGen[n]>>            \* peerRef.current.id

Mounted == {n \in Node : peerGen[n] > 0}

ConnIdx == 1..Len(conns)

\* conn.open
IsOpen(cs, c) == cs[c].st = "open"

\* A DataConnection object.  owner/gen: the Peer object that holds it;
\* peer: conn.peer; out: created by peer.connect(); mate: the object at the
\* other end (0 until the remote Peer has emitted "connection");
\* st: "new" (negotiating), "open", "closed", "failed"; inbox: data sent by
\* the other end and not yet handed to the "data" handler.
NewConn(n, g, p, isOut, m) ==
    [owner |-> n, gen |-> g, peer |-> p, out |-> isOut, mate |-> m,
     st |-> "new", inbox |-> <<>>]

\* conn.send(m) on connection c: the message is queued at the other end while
\* that end exists and is not closed.
Send(cs, c, m) ==
    IF IsOpen(cs, c) /\ cs[c].mate # 0 /\ cs[cs[c].mate].st \in {"new", "open"}
    THEN [cs EXCEPT ![cs[c].mate].inbox = Append(@, m)]
    ELSE cs

\* Object.entries(connectionsRef.current).forEach(([peerId, conn]) =>
\*     { if (conn.open) conn.send(m) })
OpenRegistered(cs, reg) ==
    {c \in 1..Len(cs) : IsOpen(cs, c) /\ \E p \in PeerIds : reg[p] = c}

SendToAllOpen(cs, reg, m) ==
    [i \in 1..Len(cs) |->
        IF /\ cs[i].st \in {"new", "open"}
           /\ \E c \in OpenRegistered(cs, reg) : cs[c].mate = i
        THEN [cs[i] EXCEPT !.inbox = Append(@, m)]
        ELSE cs[i]]

\* The registry part of the state, threaded through a handler that calls
\* connectToPeerById several times.
Reg == [conns |-> conns, connections |-> connections, pending |-> pending,
        timers |-> timers, calls |-> <<>>]

SetReg(S) ==
    /\ conns' = S.conns
    /\ connections' = S.connections
    /\ pending' = S.pending
    /\ timers' = S.timers
    /\ calls' = S.calls

\* What a call of connectToPeerById can change, seen from node n for target t.
Snapshot(S, n, t) ==
    [nconns |-> Len(S.conns), entry |-> S.connections[n][t],
     pend |-> t \in S.pending[n], ntimers |-> Cardinality(S.timers)]

\* connectToPeerById without its test of pendingConnectionsRef.
connectToPeerByIdAgain(S, n, t) ==
    LET k == Len(S.conns) + 1 IN
    [S EXCEPT !.pending[n] = @ \cup {t},
              !.conns = Append(@, NewConn(n, peerGen[n], t, TRUE, 0)),
              !.connections[n][t] = k,
              !.timers = @ \cup {[kind |-> "connectTimeout", node |-> n,
                                  target |-> t, att |-> k]}]

\* ------------------------------------------------------- connectToPeerById
\* `!peerRef.current` never holds when this runs: forceReconnect sets the ref
\* to null and to the new Peer within one call.
connectToPeerById(S, n, t) ==
    IF t \in S.pending[n]
    THEN S
    ELSE LET k == Len(S.conns) + 1 IN
         [S EXCEPT !.pending[n] = @ \cup {t},
                   !.conns = Append(@, NewConn(n, peerGen[n], t, TRUE, 0)),
                   !.connections[n][t] = k,
                   !.timers = @ \cup {[kind |-> "connectTimeout", node |-> n,
                                       target |-> t, att |-> k]}]

\* A call of connectToPeerById, recorded in `calls` with what it found and
\* what it left.
CallConnect(S, n, t) ==
    LET R == connectToPeerById(S, n, t) IN
    [R EXCEPT !.calls = Append(@,
        [node |-> n, target |-> t,
         self |-> (t = IdOf(n)),
         hadOpen |-> \E c \in 1..Len(S.conns) :
                        /\ S.conns[c].owner = n
                        /\ S.conns[c].peer = t
                        /\ IsOpen(S.conns, c),
         pre |-> Snapshot(S, n, t),
         post |-> Snapshot(R, n, t)])]

\* targets.forEach((t) => { if (ok(t)) connectToPeerById(t) })
RECURSIVE ConnectEach(_, _, _)
ConnectEach(S, n, ts) ==
    IF ts = <<>> THEN S
    ELSE ConnectEach(CallConnect(S, n, Head(ts)), n, Tail(ts))


\* ------------------------------------------------------------ avatars
\* createPlayerModel: replaces the entry of `id`; players[id].rotation is 0
\* and the model stands at the given x/z.
createPlayerModel(models, id, name, col, p) ==
    [x \in (DOMAIN models) \cup {id} |->
        IF x = id THEN [username |-> name, pos |-> p, color |-> col]
        ELSE models[x]]

\* handlePlayerInfo: both branches leave players[id] with the received
\* username and position; only the branch that finds no model builds one.
handlePlayerInfo(models, data) ==
    IF data.id = myId THEN models
    ELSE IF data.id \in DOMAIN models
         THEN [models EXCEPT ![data.id] = [username |-> data.username,
                                           pos |-> data.pos, color |-> data.color]]
         ELSE createPlayerModel(models, data.id, data.username, data.color, data.pos)

\* handlePlayerLeft, the playerModelsRef / players part.
handlePlayerLeft(models, id) ==
    [x \in (DOMAIN models) \ {id} |-> models[x]]

\* handlePlayerMove(peerId, data): the model of peerId, when there is one, is
\* put at the received position and rotation (`pos` stands for the pair);
\* without a model of peerId nothing is written.
handlePlayerMove(models, peerId, data) ==
    IF peerId \in DOMAIN models
    THEN [models EXCEPT ![peerId].pos = data.pos]
    ELSE models

\* ------------------------------------------------------------ canvases
StartTime == 1000          \* the clock when the scenarios begin
Expiry    == 1800000       \* 30 minutes

NoData == [img |-> 0, ts |-> 0]   \* no localStorage item: the default canvas

\* The two shapes of `imageData` on the wire: the data URL itself, or
\* JSON.stringify({imageData, timestamp}).
Raw(img)  == [json |-> FALSE, img |-> img]
Json(rec) == [json |-> TRUE, img |-> rec.img, ts |-> rec.ts]

\* handleCanvasData, choosing img.src: JSON.parse of a JSON string yields
\* parsed.imageData, JSON.parse of a data URL throws and the string is used.
\* The timestamp inside the JSON form is not read.
ImageOf(payload) == payload.img

\* handleCanvasData, `localStorage.removeItem("canvas-data-requested")`: it
\* comes after the return for a payload without canvasId and before the
\* search for the canvas.
dataReceived(req, n, data) ==
    IF data.canvasId = NoCanvasId THEN req ELSE [req EXCEPT ![n] = FALSE]

\* handleCanvasData up to `img.src = ...`: an Image starts loading; the
\* canvas and localStorage are written by its onload.
handleCanvasData(ld, n, data) ==
    IF data.canvasId \notin CanvasIds THEN ld
    ELSE ld \cup {[node |-> n, canvasId |-> data.canvasId,
                   img |-> ImageOf(data.imageData), kind |-> "recv"]}

\* if (savedData.timestamp && currentTime - savedData.timestamp < 1800000)
Fresh(rec, t) == rec.ts # 0 /\ t - rec.ts < Expiry

\* createCanvas with the item still loaded at exactly 30 minutes.
createCanvasAtExpiry(saved, t) ==
    IF saved # NoData /\ saved.ts # 0 /\ t - saved.ts <= Expiry
    THEN [item |-> saved, src |-> saved.img]
    ELSE [item |-> NoData, src |-> 0]

\* createCanvas(id), the localStorage part: a stored item that is fresh is
\* kept and its image is set loading; a stored item that is not is removed
\* and the default canvas is drawn (src 0); so is it without a stored item.
createCanvas(saved, t) ==
    IF saved # NoData /\ Fresh(saved, t)
    THEN [item |-> saved, src |-> saved.img]
    ELSE [item |-> NoData, src |-> 0]

\* placeCanvases -> createCanvas(id) when the scene of node n is built.
PlaceCanvas(n, id) ==
    /\ n \in Mounted
    /\ id \in CanvasIds
    /\ LET r == createCanvas(store[n][id], now) IN
       /\ store' = [store EXCEPT ![n][id] = r.item]
       /\ loading' = IF r.src = 0 THEN loading
                      ELSE loading \cup {[node |-> n, canvasId |-> id,
                                          img |-> r.src, kind |-> "load"]}
    /\ calls' = <<>>
    /\ UNCHANGED <<frameVars, meshVars, requested, now, commits>>

\* img.onload of createCanvas: the stored image is drawn.
SavedCanvasDrawn(l) ==
    /\ l \in loading
    /\ l.kind = "load"
    /\ loading' = loading \ {l}
    /\ calls' = <<>>
    /\ UNCHANGED <<frameVars, meshVars, store, requested, now, commits>>

\* ------------------------------------------------------------ start-up
\* joinGallery(peerId): connect to every id of the `p` parameter that is not
\* peerId, unless the parameter is absent or is exactly peerId.
joinTargets(n) ==
    IF url[n] = <<>> \/ url[n] = <<IdOf(n)>> THEN <<>>
    ELSE SelectSeq(url[n], LAMBDA t : t # IdOf(n))

\* A join address names ids that were shown by a running client.
UrlIdsExist(n) ==
    \A i \in 1..Len(url[n]) :
        LET t == url[n][i] IN
        peerGen[t[1]] > t[2] \/ (peerGen[t[1]] = t[2] /\ peerOpen[t[1]])

\* peer.on("open", id): first "open" of the Peer made by setupPeerConnection.
PeerOnOpen(n) ==
    /\ n \in Mounted
    /\ ~peerOpen[n]
    /\ UrlIdsExist(n)
    /\ peerOpen' = [peerOpen EXCEPT ![n] = TRUE]
    /\ knownPeers' = [knownPeers EXCEPT ![n] = @ \cup {IdOf(n)}]
    /\ playerModels' = [playerModels EXCEPT
                           ![n] = createPlayerModel(@, IdOf(n), n, playerColor, 0)]
    /\ LET S == ConnectEach(Reg, n, joinTargets(n)) IN
       SetReg(IF url[n] # <<>> /\ url[n] # <<IdOf(n)>>
              THEN [S EXCEPT !.timers = @ \cup {[kind |-> "joinRequest", node |-> n,
                                                 round |-> 1]}]
              ELSE S)
    /\ url' = [url EXCEPT ![n] = <<IdOf(n)>>]
    /\ UNCHANGED <<frameVars, peerGen, canvasVars>>

\* peer.on("connection", conn): the offer of connection c reaches the Peer
\* that owns the id it was made for; that Peer builds its end of it.
PeerOnConnection(c) ==
    /\ c \in ConnIdx
    /\ conns[c].out /\ conns[c].mate = 0 /\ conns[c].st = "new"
    /\ \E m \in Mounted :
        /\ IdOf(m) = conns[c].peer
        /\ peerOpen[m]
        /\ LET from == <<conns[c].owner, conns[c].gen>>
               k == Len(conns) + 1
           IN /\ conns' = Append([conns EXCEPT ![c].mate = k],
                                 NewConn(m, peerGen[m], from, FALSE, c))
              /\ connections' = [connections EXCEPT ![m][from] = k]
              /\ pending' = [pending EXCEPT ![m] = @ \ {from}]
    /\ calls' = <<>>
    /\ UNCHANGED <<frameVars, peerGen, peerOpen, url, knownPeers, playerModels, timers,
                   canvasVars>>

\* conn.on("open").  The colour of the playerInfo is read from
\* playerModelsRef.current[myId]; with myId the empty string no model is found
\* and the colour is a fresh getRandomColor(), the input col.
ConnOpens(c, col) ==
    /\ c \in ConnIdx
    /\ conns[c].st = "new" /\ conns[c].mate # 0
    /\ conns[conns[c].mate].st \in {"new", "open"}
    /\ LET n == conns[c].owner
           p == conns[c].peer
           cs1 == [conns EXCEPT ![c].st = "open"]
           cs2 == Send(cs1, c, [type |-> "playerInfo", id |-> IdOf(n),
                                username |-> n, pos |-> 0,
                                color |-> IF myId \in DOMAIN playerModels[n]
                                          THEN playerModels[n][myId].color
                                          ELSE col])
           cs3 == Send(cs2, c, [type |-> "requestPeerList"])
       IN /\ pending' = [pending EXCEPT ![n] = @ \ {p}]
          /\ knownPeers' = [knownPeers EXCEPT ![n] = @ \cup {p}]
          /\ conns' = cs3
          /\ timers' = timers \cup {[kind |-> "openDelay", node |-> n, conn |-> c]}
    /\ calls' = <<>>
    /\ UNCHANGED <<frameVars, peerGen, peerOpen, url, playerModels, connections, canvasVars>>

\* conn.on("open") in the scenarios where colours play no part: the draw of
\* getRandomColor() is the first colour.
ConnOnOpen(c) == ConnOpens(c, 0)


\* ------------------------------------------------------ conn.on("data")
Receivable(c, type) ==
    /\ c \in ConnIdx
    /\ IsOpen(conns, c)
    /\ conns[c].inbox # <<>>
    /\ Head(conns[c].inbox).type = type

Popped(c) == [conns EXCEPT ![c].inbox = Tail(@)]

\* case "playerInfo"
OnPlayerInfo(c) ==
    /\ Receivable(c, "playerInfo")
    /\ LET n == conns[c].owner
           data == Head(conns[c].inbox)
       IN playerModels' = [playerModels EXCEPT ![n] =
              IF data.id = myId THEN @ ELSE handlePlayerInfo(@, data)]
    /\ conns' = Popped(c)
    /\ calls' = <<>>
    /\ UNCHANGED <<frameVars, peerGen, peerOpen, url, knownPeers, connections, pending,
                   timers, canvasVars>>

\* case "playerMove": handlePlayerMove(conn.peer, data.data)
OnPlayerMove(c) ==
    /\ Receivable(c, "playerMove")
    /\ playerModels' = [playerModels EXCEPT ![conns[c].owner] =
            handlePlayerMove(@, conns[c].peer, Head(conns[c].inbox))]
    /\ conns' = Popped(c)
    /\ calls' = <<>>
    /\ UNCHANGED <<frameVars, peerGen, peerOpen, url, knownPeers, connections, pending,
                   timers, canvasVars>>

\* case "playerLeft": handlePlayerLeft(data.data.id), which also deletes the
\* id from knownPeersRef.
OnPlayerLeft(c) ==
    /\ Receivable(c, "playerLeft")
    /\ LET n == conns[c].owner
           id == Head(conns[c].inbox).id
       IN /\ playerModels' = [playerModels EXCEPT ![n] = handlePlayerLeft(@, id)]
          /\ knownPeers' = [knownPeers EXCEPT ![n] = @ \ {id}]
    /\ conns' = Popped(c)
    /\ calls' = <<>>
    /\ UNCHANGED <<frameVars, peerGen, peerOpen, url, connections, pending, timers,
                   canvasVars>>

\* case "requestPeerList": conn.open holds while a "data" event is handled.
OnRequestPeerList(c) ==
    /\ Receivable(c, "requestPeerList")
    /\ conns' = Send(Popped(c), c,
                     [type |-> "peerList", peers |-> knownPeers[conns[c].owner]])
    /\ calls' = <<>>
    /\ UNCHANGED <<frameVars, peerGen, peerOpen, url, knownPeers, playerModels, connections,
                   pending, timers, canvasVars>>

RECURSIVE SetToSeq(_)
SetToSeq(S) ==
    IF S = {} THEN <<>>
    ELSE LET x == CHOOSE y \in S : TRUE IN <<x>> \o SetToSeq(S \ {x})

\* peerListEach with the pendingConnectionsRef test turned round: only ids
\* with an attempt under way pass.
RECURSIVE peerListEachPending(_, _, _)
peerListEachPending(S, n, ts) ==
    IF ts = <<>> THEN S
    ELSE LET t == Head(ts)
             wanted == /\ t # myId
                       /\ t \notin knownPeers[n]
                       /\ S.connections[n][t] = 0
                       /\ t \in S.pending[n]
         IN peerListEachPending(IF wanted THEN CallConnect(S, n, t) ELSE S, n,
                              Tail(ts))

\* data.data.peers.forEach(...): connect to the ids that pass the four tests.
RECURSIVE peerListEach(_, _, _)
peerListEach(S, n, ts) ==
    IF ts = <<>> THEN S
    ELSE LET t == Head(ts)
             wanted == /\ t # myId
                       /\ t \notin knownPeers[n]
                       /\ S.connections[n][t] = 0
                       /\ t \notin S.pending[n]
         IN peerListEach(IF wanted THEN CallConnect(S, n, t) ELSE S, n, Tail(ts))

\* case "peerList"
OnPeerList(c) ==
    /\ Receivable(c, "peerList")
    /\ LET n == conns[c].owner
           data == Head(conns[c].inbox)
       IN SetReg(peerListEach([Reg EXCEPT !.conns = Popped(c)], n,
                              SetToSeq(data.peers)))
    /\ UNCHANGED <<frameVars, peerGen, peerOpen, url, knownPeers, playerModels, canvasVars>>

\* History: node n has been handed an update that carries drawing `img`.
Seen(n, data) ==
    LET i == ImageOf(data.imageData) IN
    IF i \in 1..Len(commits) /\ data.canvasId \in CanvasIds
    THEN [commits EXCEPT ![i].seenBy = @ \cup {n}]
    ELSE commits

\* case "canvasData"
OnCanvasData(c) ==
    /\ Receivable(c, "canvasData")
    /\ loading' = handleCanvasData(loading, conns[c].owner, Head(conns[c].inbox))
    /\ commits' = Seen(conns[c].owner, Head(conns[c].inbox))
    /\ requested' = dataReceived(requested, conns[c].owner, Head(conns[c].inbox))
    /\ conns' = Popped(c)
    /\ calls' = <<>>
    /\ UNCHANGED <<frameVars, peerGen, peerOpen, url, knownPeers, playerModels, connections,
                   pending, timers, store, now>>

\* handleCanvasUpdate passing the update on under the type it came with.
handleCanvasUpdateAsUpdate(cs, reg, data) ==
    SendToAllOpen(cs, reg, [type |-> "updateCanvas", canvasId |-> data.canvasId,
                            imageData |-> data.imageData])

\* handleCanvasUpdate: handleCanvasData, then the same canvasId and imageData
\* go out as "canvasData" on every open connection of connectionsRef.
handleCanvasUpdate(cs, reg, data) ==
    SendToAllOpen(cs, reg, [type |-> "canvasData", canvasId |-> data.canvasId,
                            imageData |-> data.imageData])

\* case "updateCanvas"
OnUpdateCanvas(c) ==
    /\ Receivable(c, "updateCanvas")
    /\ LET n == conns[c].owner
           data == Head(conns[c].inbox)
       IN /\ loading' = handleCanvasData(loading, n, data)
          /\ commits' = Seen(n, data)
          /\ requested' = dataReceived(requested, n, data)
          /\ conns' = handleCanvasUpdate(Popped(c), connections[n], data)
    /\ calls' = <<>>
    /\ UNCHANGED <<frameVars, peerGen, peerOpen, url, knownPeers, playerModels, connections,
                   pending, timers, store, now>>

\* canvases.forEach: one "canvasData" per canvas whose stored item is fresh.
RECURSIVE sendSavedCanvases(_, _, _, _, _)
sendSavedCanvases(cs, c, n, ids, wrap) ==
    IF ids = <<>> THEN cs
    ELSE LET id == Head(ids)
             saved == store[n][id]
             next == IF saved # NoData /\ Fresh(saved, now)
                     THEN Send(cs, c, [type |-> "canvasData", canvasId |-> id,
                                       imageData |-> IF wrap THEN Json(saved)
                                                     ELSE Raw(saved.img)])
                     ELSE cs
         IN sendSavedCanvases(next, c, n, Tail(ids), wrap)

\* case "requestAllCanvasData": replies with savedData.imageData
OnRequestAllCanvasData(c) ==
    /\ Receivable(c, "requestAllCanvasData")
    /\ conns' = sendSavedCanvases(Popped(c), c, conns[c].owner, CanvasSeq, FALSE)
    /\ calls' = <<>>
    /\ UNCHANGED <<frameVars, peerGen, peerOpen, url, knownPeers, playerModels, connections,
                   pending, timers, canvasVars>>


\* ------------------------------------------------- close, error, timers
\* peer.connect() calls node n has made for id t.
Attempts(n, t) ==
    Cardinality({c \in ConnIdx : conns[c].out /\ conns[c].owner = n /\ conns[c].peer = t})

\* The body of conn.on("error") for a connection that is not open: the
\* pending flag and the registry entry of conn.peer go, whichever connection
\* they belong to, and a 3 s timer is set.
connErrorHandler(S, n, c) ==
    LET p == S.conns[c].peer IN
    [S EXCEPT !.pending[n] = @ \ {p},
              !.connections[n][p] = 0,
              !.timers = @ \cup {[kind |-> "errorBackoff", node |-> n, conn |-> c]}]

\* conn.on("error"): the negotiation of connection c fails; the failure is
\* reported at the end that called peer.connect().
ConnOnError(c) ==
    /\ c \in ConnIdx
    /\ conns[c].st = "new" /\ conns[c].out
    /\ conns[c].gen = peerGen[conns[c].owner]
    /\ SetReg(connErrorHandler([Reg EXCEPT !.conns[c].st = "failed"],
                               conns[c].owner, c))
    /\ UNCHANGED <<frameVars, peerGen, peerOpen, url, knownPeers, playerModels, canvasVars>>

\* The 3 s timer of conn.on("error").
ErrorBackoffFires(tm) ==
    /\ tm \in timers
    /\ tm.kind = "errorBackoff"
    /\ LET n == tm.node
           p == conns[tm.conn].peer
           S == [Reg EXCEPT !.timers = @ \ {tm}]
           retry == p \in knownPeers[n] /\ connections[n][p] = 0
       IN /\ retry => Attempts(n, p) < MaxAttempts
          /\ SetReg(IF retry THEN CallConnect(S, n, p) ELSE S)
    /\ UNCHANGED <<frameVars, peerGen, peerOpen, url, knownPeers, playerModels, canvasVars>>

\* The 10 s timer of connectToPeerById.  It reads the refs by targetPeerId:
\* the attempt that set it is not consulted.
ConnectTimeoutFires(tm) ==
    /\ tm \in timers
    /\ tm.kind = "connectTimeout"
    /\ LET n == tm.node
           t == tm.target
           S == [Reg EXCEPT !.timers = @ \ {tm}]
           e == connections[n][t]
           isOpen == e # 0 /\ IsOpen(conns, e)
       IN /\ (t \in pending[n] /\ ~isOpen) => Attempts(n, t) < MaxAttempts
          /\ SetReg(IF t \in pending[n]
                    THEN IF ~isOpen
                         THEN CallConnect([S EXCEPT !.pending[n] = @ \ {t},
                                                    !.connections[n][t] = 0], n, t)
                         ELSE [S EXCEPT !.pending[n] = @ \ {t}]
                    ELSE S)
    /\ UNCHANGED <<frameVars, peerGen, peerOpen, url, knownPeers, playerModels, canvasVars>>

\* conn.on("close"): the other end of an open connection has gone.
ConnOnClose(c) ==
    /\ c \in ConnIdx
    /\ IsOpen(conns, c)
    /\ conns[conns[c].mate].st \in {"closed", "failed"}
    /\ LET n == conns[c].owner
           p == conns[c].peer
       IN /\ conns' = [conns EXCEPT ![c].st = "closed", ![c].inbox = <<>>]
          /\ connections' = [connections EXCEPT ![n][p] = 0]
          /\ pending' = [pending EXCEPT ![n] = @ \ {p}]
          /\ playerModels' = [playerModels EXCEPT ![n] = handlePlayerLeft(@, p)]
          /\ knownPeers' = [knownPeers EXCEPT ![n] = @ \ {p}]
    /\ calls' = <<>>
    /\ UNCHANGED <<frameVars, peerGen, peerOpen, url, timers, canvasVars>>

\* The 1 s timer of conn.on("open"): the saved canvases, JSON-wrapped, then
\* "requestAllCanvasData".  send() on a connection that is no longer open
\* makes PeerJS emit "error" on it, which runs the error handler above.
OpenDelayFires(tm) ==
    /\ tm \in timers
    /\ tm.kind = "openDelay"
    /\ LET n == tm.node
           c == tm.conn
           S == [Reg EXCEPT !.timers = @ \ {tm}]
       IN SetReg(IF IsOpen(conns, c)
                 THEN [S EXCEPT !.conns =
                          Send(sendSavedCanvases(conns, c, n, CanvasSeq, TRUE), c,
                               [type |-> "requestAllCanvasData", requesterId |-> myId])]
                 ELSE connErrorHandler(S, n, c))
    /\ UNCHANGED <<frameVars, peerGen, peerOpen, url, knownPeers, playerModels, canvasVars>>

\* forceReconnect without `knownPeersRef.current = new Set()`.
forceReconnectKeepsKnown(n) ==
    /\ n \in Mounted
    /\ peerGen[n] < MaxGen
    /\ conns' = [i \in ConnIdx |->
                    IF conns[i].owner = n /\ conns[i].st \in {"new", "open"}
                    THEN [conns[i] EXCEPT !.st = "closed", !.inbox = <<>>]
                    ELSE conns[i]]
    /\ connections' = [connections EXCEPT ![n] = [p \in PeerIds |-> 0]]
    /\ pending' = [pending EXCEPT ![n] = {}]
    /\ playerModels' = [playerModels EXCEPT ![n] =
            [x \in {y \in DOMAIN @ : y = myId} |-> @[x]]]
    /\ peerGen' = [peerGen EXCEPT ![n] = @ + 1]
    /\ peerOpen' = [peerOpen EXCEPT ![n] = FALSE]
    /\ calls' = <<>>
    /\ UNCHANGED <<frameVars, url, knownPeers, timers, canvasVars>>

\* forceReconnect (Ctrl+R, window.forceReconnect), with the setupPeerConnection
\* it ends with.  peer.destroy() closes the connections of the old Peer; the
\* refs are emptied; every model whose id differs from `myId` is removed; the
\* known peers are emptied and `myId` is added back only if it is non-empty.
\* No timer is cleared.
forceReconnect(n) ==
    /\ n \in Mounted
    /\ peerGen[n] < MaxGen
    /\ conns' = [i \in ConnIdx |->
                    IF conns[i].owner = n /\ conns[i].st \in {"new", "open"}
                    THEN [conns[i] EXCEPT !.st = "closed", !.inbox = <<>>]
                    ELSE conns[i]]
    /\ connections' = [connections EXCEPT ![n] = [p \in PeerIds |-> 0]]
    /\ pending' = [pending EXCEPT ![n] = {}]
    /\ playerModels' = [playerModels EXCEPT ![n] =
            [x \in {y \in DOMAIN @ : y = myId} |-> @[x]]]
    /\ knownPeers' = [knownPeers EXCEPT ![n] = IF myId # NoId THEN {myId} ELSE {}]
    /\ peerGen' = [peerGen EXCEPT ![n] = @ + 1]
    /\ peerOpen' = [peerOpen EXCEPT ![n] = FALSE]
    /\ calls' = <<>>
    /\ UNCHANGED <<frameVars, url, timers, canvasVars>>

\* The far end of a data connection is another browser, running whatever
\* client it runs: a playerInfo naming any id can arrive on an open connection.
RemoteSendsPlayerInfo(c, id, p) ==
    /\ c \in ConnIdx
    /\ IsOpen(conns, c)
    /\ conns[c].inbox = <<>>
    /\ conns' = [conns EXCEPT ![c].inbox =
                    <<[type |-> "playerInfo", id |-> id, username |-> id[1],
                       pos |-> p, color |-> 0]>>]
    /\ calls' = <<>>
    /\ UNCHANGED <<frameVars, peerGen, peerOpen, url, knownPeers, playerModels, connections,
                   pending, timers, canvasVars>>

\* The message types the switch of conn.on("data") has a case for.
KnownTypes == {"playerInfo", "playerMove", "canvasData", "updateCanvas",
               "playerLeft", "requestPeerList", "peerList", "requestAllCanvasData"}

\* conn.on("data") for a type without a case: the switch does nothing.
OnUnknownType(c) ==
    /\ c \in ConnIdx
    /\ IsOpen(conns, c)
    /\ conns[c].inbox # <<>>
    /\ Head(conns[c].inbox).type \notin KnownTypes
    /\ conns' = Popped(c)
    /\ calls' = <<>>
    /\ UNCHANGED <<frameVars, peerGen, peerOpen, url, knownPeers, playerModels, connections,
                   pending, timers, canvasVars>>

\* Envelopes no client of this code sends: a type without a case, and the
\* canvas messages with the empty payload `data: {}`.
Malformed ==
    {[type |-> "hello"],
     [type |-> "canvasData",   canvasId |-> NoCanvasId, imageData |-> Raw(0)],
     [type |-> "updateCanvas", canvasId |-> NoCanvasId, imageData |-> Raw(0)]}

\* Such an envelope arrives on an open connection.
RemoteSendsMalformed(c, m) ==
    /\ c \in ConnIdx
    /\ IsOpen(conns, c)
    /\ conns[c].inbox = <<>>
    /\ m \in Malformed
    /\ conns' = [conns EXCEPT ![c].inbox = <<m>>]
    /\ calls' = <<>>
    /\ UNCHANGED <<frameVars, peerGen, peerOpen, url, knownPeers, playerModels, connections,
                   pending, timers, canvasVars>>

\* A "playerLeft" naming any id arrives on an open connection: this client
\* never sends the message, other clients of the mesh do.
RemoteSendsPlayerLeft(c, id) ==
    /\ c \in ConnIdx
    /\ IsOpen(conns, c)
    /\ conns[c].inbox = <<>>
    /\ conns' = [conns EXCEPT ![c].inbox = <<[type |-> "playerLeft", id |-> id]>>]
    /\ calls' = <<>>
    /\ UNCHANGED <<frameVars, peerGen, peerOpen, url, knownPeers, playerModels, connections,
                   pending, timers, canvasVars>>

\* animate(): the node stands at p and sends "playerMove" on every open
\* connection of connectionsRef.
SendPlayerMove(n, p) ==
    /\ n \in Mounted
    /\ peerOpen[n]
    /\ conns' = SendToAllOpen(conns, connections[n], [type |-> "playerMove", pos |-> p])
    /\ conns' # conns
    /\ calls' = <<>>
    /\ UNCHANGED <<frameVars, peerGen, peerOpen, url, knownPeers, playerModels, connections,
                   pending, timers, canvasVars>>

\* ------------------------------------------------ animate
MoveInterval == 100    \* `time - lastUpdateTime > 100`

\* animate() sending as soon as 100 ms have passed.
animateAtInterval(n, gap, p) ==
    /\ n \in Mounted
    /\ gap \in 1..MaxGap
    /\ prevTime[n] + gap <= MaxTime
    /\ LET time == prevTime[n] + gap
           due == time - lastUpdateTime[n] >= MoveInterval
           cs == SendToAllOpen(conns, connections[n], [type |-> "playerMove", pos |-> p])
       IN /\ prevTime' = [prevTime EXCEPT ![n] = time]
          /\ lastUpdateTime' = IF due THEN [lastUpdateTime EXCEPT ![n] = time]
                                ELSE lastUpdateTime
          /\ conns' = IF due THEN cs ELSE conns
          /\ lastSent' = IF due /\ cs # conns THEN [lastSent EXCEPT ![n] = time]
                          ELSE lastSent
    /\ calls' = <<>>
    /\ UNCHANGED <<peerGen, peerOpen, url, knownPeers, playerModels, connections,
                   pending, timers, canvasVars>>

\* One frame of animate() with the pointer locked, gap ms after the last one:
\* when more than 100 ms have passed since lastUpdateTime and there is a Peer,
\* lastUpdateTime becomes the time of the frame and a "playerMove" goes out
\* on every open connection of connectionsRef.
animate(n, gap, p) ==
    /\ n \in Mounted
    /\ gap \in 1..MaxGap
    /\ prevTime[n] + gap <= MaxTime
    /\ LET time == prevTime[n] + gap
           due == time - lastUpdateTime[n] > MoveInterval
           cs == SendToAllOpen(conns, connections[n], [type |-> "playerMove", pos |-> p])
       IN /\ prevTime' = [prevTime EXCEPT ![n] = time]
          /\ lastUpdateTime' = IF due THEN [lastUpdateTime EXCEPT ![n] = time]
                                ELSE lastUpdateTime
          /\ conns' = IF due THEN cs ELSE conns
          /\ lastSent' = IF due /\ cs # conns THEN [lastSent EXCEPT ![n] = time]
                          ELSE lastSent
    /\ calls' = <<>>
    /\ UNCHANGED <<peerGen, peerOpen, url, knownPeers, playerModels, connections,
                   pending, timers, canvasVars>>

\* ------------------------------------------------ requestAllCanvasData
\* requestAllCanvasData(), the sends: one request on every open connection
\* of connectionsRef.  The caller sets the flag and the 5 s timer.
requestAllCanvasData(cs, reg) ==
    SendToAllOpen(cs, reg, [type |-> "requestAllCanvasData", requesterId |-> myId])

\* The request node n sent before has been taken by every peer it went to
\* (the requests are 5 s apart).
NoRequestInFlight(n) ==
    \A c \in ConnIdx :
        conns[c].peer[1] = n =>
            \A i \in 1..Len(conns[c].inbox) :
                conns[c].inbox[i].type # "requestAllCanvasData"

\* The timers of joinGallery: requestAllCanvasData() 2 s after the join, and
\* again 5 s and 10 s after that.
JoinRequestFires(tm) ==
    /\ tm \in timers
    /\ tm.kind = "joinRequest"
    /\ NoRequestInFlight(tm.node)
    /\ LET n == tm.node IN
       /\ requested' = [requested EXCEPT ![n] = TRUE]
       /\ conns' = requestAllCanvasData(conns, connections[n])
       /\ timers' = ((timers \ {tm}) \cup {[kind |-> "requestRetry", node |-> n]})
                        \cup (IF tm.round = 1
                              THEN {[kind |-> "joinRequest", node |-> n, round |-> r] :
                                        r \in {2, 3}}
                              ELSE {})
    /\ calls' = <<>>
    /\ UNCHANGED <<frameVars, peerGen, peerOpen, url, knownPeers, playerModels, connections,
                   pending, store, loading, now, commits>>

\* The 5 s timer of requestAllCanvasData(): while the flag is set and
\* connectionsRef has an entry, the request is made again.
RequestRetryFires(tm) ==
    /\ tm \in timers
    /\ tm.kind = "requestRetry"
    /\ NoRequestInFlight(tm.node)
    /\ LET n == tm.node
           again == requested[n] /\ \E p \in PeerIds : connections[n][p] # 0
       IN /\ requested' = [requested EXCEPT ![n] = again]
          /\ conns' = IF again THEN requestAllCanvasData(conns, connections[n])
                      ELSE conns
          /\ timers' = IF again THEN timers ELSE timers \ {tm}
    /\ calls' = <<>>
    /\ UNCHANGED <<frameVars, peerGen, peerOpen, url, knownPeers, playerModels, connections,
                   pending, store, loading, now, commits>>

\* ------------------------------------------------------ canvas commits
\* handleSaveDrawing up to `img.src = imageData`: the drawing interface hands
\* over a new image for the canvas being edited.
SaveDrawing(n, id) ==
    /\ n \in Mounted
    /\ Len(commits) < MaxCommits
    /\ loading' = loading \cup {[node |-> n, canvasId |-> id,
                                 img |-> Len(commits) + 1, kind |-> "commit"]}
    /\ commits' = Append(commits, [node |-> n, canvasId |-> id, ts |-> 0,
                                    seenBy |-> {}])
    /\ calls' = <<>>
    /\ UNCHANGED <<frameVars, peerGen, peerOpen, url, knownPeers, playerModels, conns,
                   connections, pending, timers, store, requested, now>>


\* img.onload of handleSaveDrawing: the item is stored with Date.now() and
\* "updateCanvas" {canvasId, imageData} goes to every open connection.
SavedImageLoaded(l) ==
    /\ l \in loading
    /\ l.kind = "commit"
    /\ loading' = loading \ {l}
    /\ store' = [store EXCEPT ![l.node][l.canvasId] = [img |-> l.img, ts |-> now]]
    /\ commits' = [commits EXCEPT ![l.img].ts = now]
    /\ conns' = SendToAllOpen(conns, connections[l.node],
                              [type |-> "updateCanvas", canvasId |-> l.canvasId,
                               imageData |-> Raw(l.img)])
    /\ calls' = <<>>
    /\ UNCHANGED <<frameVars, peerGen, peerOpen, url, knownPeers, playerModels, connections,
                   pending, timers, requested, now>>

\* img.onload of handleCanvasData: the received image is drawn and stored
\* with the receiver's Date.now().
ImageLoaded(l) ==
    /\ l \in loading
    /\ l.kind = "recv"
    /\ loading' = loading \ {l}
    /\ store' = [store EXCEPT ![l.node][l.canvasId] = [img |-> l.img, ts |-> now]]
    /\ calls' = <<>>
    /\ UNCHANGED <<frameVars, meshVars, requested, now, commits>>

\* Time passes.
Tick ==
    /\ now < StartTime + MaxTicks
    /\ now' = now + 1
    /\ calls' = <<>>
    /\ UNCHANGED <<frameVars, meshVars, store, requested, loading, commits>>

\* ------------------------------------------------------------ initial states
\* `let lastUpdateTime = 0`; no frame has run.
FramesStart ==
    /\ prevTime = [n \in Node |-> 0]
    /\ lastUpdateTime = [n \in Node |-> 0]
    /\ lastSent = [n \in Node |-> 0]

NoConnections == [n \in Node |-> [p \in PeerIds |-> 0]]

\* Right after the components mount: setupPeerConnection has made each Peer,
\* no "open" has arrived, localStorage holds no canvas.
InitMounted(ns, urls) ==
    /\ peerGen = [n \in Node |-> IF n \in ns THEN 1 ELSE 0]
    /\ peerOpen = [n \in Node |-> FALSE]
    /\ url = urls
    /\ knownPeers = [n \in Node |-> {}]
    /\ playerModels = [n \in Node |-> <<>>]
    /\ conns = <<>>
    /\ connections = NoConnections
    /\ pending = [n \in Node |-> {}]
    /\ timers = {}
    /\ store = [n \in Node |-> [id \in CanvasIds |-> NoData]]
    /\ requested = [n \in Node |-> FALSE]
    /\ loading = {}
    /\ now = StartTime
    /\ commits = <<>>
    /\ calls = <<>>
    /\ FramesStart

NoUrl == [n \in Node |-> <<>>]

\* A joins through B's address; the address may name B twice.
InitConn ==
    \E u \in {<< <<"B", 1>> >>, << <<"B", 1>>, <<"B", 1>> >>} :
        InitMounted({"A", "B"}, [NoUrl EXCEPT !["A"] = u])

\* ------------------------------------------------ connection scenarios
\* A joins through B's address.  Negotiations may fail, timers fire in any
\* order, A may reconnect.
NextConn ==
    \/ \E n \in Node : PeerOnOpen(n)
    \/ \E c \in ConnIdx : PeerOnConnection(c) /\ Len(conns') <= MaxConns
    \/ \E c \in ConnIdx : ConnOnOpen(c)
    \/ \E c \in ConnIdx : OnPlayerInfo(c)
    \/ \E c \in ConnIdx : OnRequestPeerList(c)
    \/ \E c \in ConnIdx : OnPeerList(c)
    \/ \E c \in ConnIdx : ConnOnError(c)
    \/ \E c \in ConnIdx : ConnOnClose(c)
    \/ \E tm \in timers : ErrorBackoffFires(tm) /\ Len(conns') <= MaxConns
    \/ \E tm \in timers : ConnectTimeoutFires(tm) /\ Len(conns') <= MaxConns
    \/ forceReconnect("A")

SpecConn == InitConn /\ [][NextConn]_vars

\* ------------------------------------------------ canvas scenarios
\* A mesh that has settled: each edge <<n, m>> is a connection n made to m,
\* the id of its join address, open at both ends, every message of its
\* start-up handled.  Nothing is drawn yet, so every node that joined through
\* an address is still asking for canvases every 5 s.
EdgeConn(es, i) ==
    LET e == es[(i + 1) \div 2] IN
    IF i % 2 = 1
    THEN [NewConn(e[1], 1, <<e[2], 1>>, TRUE, i + 1) EXCEPT !.st = "open"]
    ELSE [NewConn(e[2], 1, <<e[1], 1>>, FALSE, i - 1) EXCEPT !.st = "open"]

InitEstablished(es) ==
    LET ns == {es[i][1] : i \in 1..Len(es)} \cup {es[i][2] : i \in 1..Len(es)}
        cs == [i \in 1..(2 * Len(es)) |-> EdgeConn(es, i)]
        entry(n, p) == {i \in 1..Len(cs) : cs[i].owner = n /\ cs[i].peer = p}
        known(n) == {<<n, 1>>} \cup {cs[i].peer : i \in {j \in 1..Len(cs) : cs[j].owner = n}}
    IN /\ peerGen = [n \in Node |-> IF n \in ns THEN 1 ELSE 0]
       /\ peerOpen = [n \in Node |-> n \in ns]
       /\ url = [n \in Node |-> IF n \in ns THEN << <<n, 1>> >> ELSE <<>>]
       /\ knownPeers = [n \in Node |-> IF n \in ns THEN known(n) ELSE {}]
       /\ playerModels = [n \in Node |->
              IF n \in ns THEN [id \in known(n) |-> [username |-> id[1], pos |-> 0, color |-> 0]]
              ELSE <<>>]
       /\ conns = cs
       /\ connections = [n \in Node |-> [p \in PeerIds |->
              IF entry(n, p) = {} THEN 0 ELSE CHOOSE i \in entry(n, p) : TRUE]]
       /\ pending = [n \in Node |-> {}]
       /\ timers = {[kind |-> "requestRetry", node |-> es[i][1]] : i \in 1..Len(es)}
       /\ store = [n \in Node |-> [id \in CanvasIds |-> NoData]]
       /\ requested = [n \in Node |-> \E i \in 1..Len(es) : es[i][1] = n]
       /\ loading = {}
       /\ now = StartTime
       /\ commits = <<>>
       /\ calls = <<>>
       /\ FramesStart

Line3 == << <<"A", "C">>, <<"B", "C">> >>                \* A - C - B
Line4 == << <<"A", "C">>, <<"B", "C">>, <<"D", "B">> >>  \* A - C - B - D

InitCanvas == \E es \in {Line3, Line4} : InitEstablished(es)

\* Nothing is in flight: no message waits, no image is loading.
Quiescent ==
    /\ loading = {}
    /\ \A c \in ConnIdx : conns[c].inbox = <<>>

\* Nothing is in flight and nobody is asking for canvases any more: from here
\* only a new drawing changes a canvas.
Settled == Quiescent /\ \A n \in Node : ~requested[n]

\* A draws, and in the three-node line B draws too.  The 5 s timers run when
\* the traffic before them has been handled.
NextCanvas ==
    \/ \E n \in (IF "D" \in Mounted THEN {"A"} ELSE {"A", "B"}), id \in CanvasIds :
          SaveDrawing(n, id)
    \/ \E l \in loading : SavedImageLoaded(l)
    \/ \E l \in loading : ImageLoaded(l)
    \/ \E c \in ConnIdx : OnUpdateCanvas(c)
    \/ \E c \in ConnIdx : OnCanvasData(c)
    \/ \E c \in ConnIdx : OnRequestAllCanvasData(c)
    \/ \E tm \in timers : Quiescent /\ RequestRetryFires(tm)
    \/ Tick

SpecCanvas == InitCanvas /\ [][NextCanvas]_vars

\* C1: the onload of a received update changes the stored canvas only if the
\* drawing it carries was saved at a later time than the stored timestamp; an
\* update that is not newer, the same update a second time included, leaves
\* content and timestamp as they are.
C1_AppliedOnlyIfNewer ==
    [][\A l \in loading \ loading' :
          (l.kind = "recv" /\ store'[l.node][l.canvasId] # store[l.node][l.canvasId])
              => commits[l.img].ts > store[l.node][l.canvasId].ts]_vars

\* The drawings of canvas id that node n has been handed, and the latest.
ReceivedBy(n, id) ==
    {i \in 1..Len(commits) : commits[i].canvasId = id /\ n \in commits[i].seenBy}

Latest(R) == {i \in R : \A j \in R : commits[j].ts <= commits[i].ts}

Drew(n, id) ==
    \E i \in 1..Len(commits) : commits[i].node = n /\ commits[i].canvasId = id

\* C2: when nothing is in flight, a node that did not draw on a canvas itself
\* shows, of the drawings it was handed for it, one with the greatest save
\* time, whatever the order they came in.
C2_LatestReceivedWins ==
    Settled =>
        \A n \in Mounted, id \in CanvasIds :
            (ReceivedBy(n, id) # {} /\ ~Drew(n, id))
                => store[n][id].img \in Latest(ReceivedBy(n, id))

\* No two drawings of one canvas were saved in the same millisecond.
DistinctSaveTimes ==
    \A i, j \in 1..Len(commits) :
        (i # j /\ commits[i].canvasId = commits[j].canvasId)
            => commits[i].ts # commits[j].ts

\* C4: when nothing is in flight and nobody asks for canvases any more, all
\* nodes of the (connected) mesh show the same content on every canvas: the
\* drawing saved last.
C4_AllNodesAgree ==
    (Settled /\ DistinctSaveTimes) =>
        \A n \in Mounted, id \in CanvasIds :
            LET R == {i \in 1..Len(commits) : commits[i].canvasId = id} IN
            R # {} => store[n][id].img \in Latest(R)

\* C5: A saved one drawing, on "north-0", at StartTime; B, which has no
\* connection to A, ends with that drawing stored under the time A saved it.
C5_RelayKeepsOriginTime ==
    (/\ Settled
     /\ Len(commits) = 1
     /\ commits[1].node = "A"
     /\ commits[1].canvasId = "north-0"
     /\ commits[1].ts = StartTime)
        => store["B"]["north-0"] = [img |-> 1, ts |-> StartTime]

\* ------------------------------------------------ discovery scenarios
\* Four browsers whose join links form a tree: B opens the page with the
\* addresses of C and D, A with the address of B.  No connection fails or
\* closes.  B, C and D run in every interleaving; A opens its page once the
\* others have nothing left to handle, and then everything A's arrival sets
\* off runs in every interleaving.
InitMesh ==
    InitMounted(Node, [NoUrl EXCEPT !["A"] = << <<"B", 1>> >>,
                                    !["B"] = << <<"C", 1>>, <<"D", 1>> >>])

\* Every DataConnection is open and every message has been handled.
Idle == \A c \in ConnIdx : IsOpen(conns, c) /\ conns[c].inbox = <<>>

NextMesh ==
    \/ \E n \in Node \ {"A"} : PeerOnOpen(n)
    \/ Idle /\ PeerOnOpen("A")
    \/ \E c \in ConnIdx : PeerOnConnection(c)
    \/ \E c \in ConnIdx : ConnOnOpen(c)
    \/ \E c \in ConnIdx : OnPlayerInfo(c)
    \/ \E c \in ConnIdx : OnRequestPeerList(c)
    \/ \E c \in ConnIdx : OnPeerList(c)

\* The event loop runs every handler that is due, and the transport delivers
\* what was sent: a step that stays possible is taken.
SpecMesh == InitMesh /\ [][NextMesh]_vars /\ WF_vars(NextMesh)

\* n holds an open DataConnection whose far end is m.
HasOpenTo(n, m) ==
    \E c \in ConnIdx :
        conns[c].owner = n /\ conns[c].peer = IdOf(m) /\ IsOpen(conns, c)

FullMesh == \A n, m \in Node : n # m => HasOpenTo(n, m)

InitInfo ==
    \E g \in 1..MaxGen :
        InitMounted({"A", "B"}, [NoUrl EXCEPT !["B"] = << <<"A", g>> >>])

NextInfo ==
    \/ \E n \in Node : PeerOnOpen(n)
    \/ \E c \in ConnIdx : PeerOnConnection(c)
    \/ \E c \in ConnIdx : ConnOnOpen(c)
    \/ \E c \in ConnIdx : OnPlayerInfo(c)
    \/ \E c \in ConnIdx : OnRequestPeerList(c)
    \/ \E c \in ConnIdx : OnPeerList(c)
    \/ \E c \in ConnIdx : ConnOnClose(c)
    \/ \E n \in Node : forceReconnect(n)
    \/ \E c \in ConnIdx, p \in Pos :
          RemoteSendsPlayerInfo(c, IdOf(conns[c].owner), p)

SpecInfo == InitInfo /\ [][NextInfo]_vars

\* C3: when the "data" handler takes a playerInfo whose id is the node's own
\* current peer id, the node's avatar records and its known peers stay as
\* they are.
C3_OwnPlayerInfoDiscarded ==
    [][\A c \in ConnIdx :
          (/\ Receivable(c, "playerInfo")
           /\ Head(conns[c].inbox).id = IdOf(conns[c].owner)
           /\ conns' = Popped(c))
          => (/\ playerModels'[conns[c].owner] = playerModels[conns[c].owner]
              /\ knownPeers' = knownPeers)]_vars

\* C7: a call of connectToPeerById made while the target is still pending is
\* a no-op: it creates no DataConnection, leaves the registry entry and the
\* pending flag of the target as they are and sets no timer, and the one
\* entry made by the first call is there.
C7_PendingCallIsNoOp ==
    \A i \in 1..Len(calls) :
        calls[i].pre.pend =>
            /\ calls[i].post = calls[i].pre
            /\ calls[i].pre.entry # 0

\* Two calls for one id within one handler: the first creates the attempt,
\* the second finds it pending.
C7_Witness ==
    \E i, j \in 1..Len(calls) :
        /\ i < j
        /\ calls[i].target = calls[j].target
        /\ ~calls[i].pre.pend
        /\ calls[j].pre.pend
        /\ calls[j].post.nconns = calls[i].pre.nconns + 1

\* C8: a call of connectToPeerById for an id the node has an open connection
\* to, or for the node's own id, is a no-op: no DataConnection, no registry
\* change, no timer.
C8_NoOpWhenOpenOrSelf ==
    \A i \in 1..Len(calls) :
        (calls[i].hadOpen \/ calls[i].self) => calls[i].post = calls[i].pre

\* No attempt of n for t has been answered, has failed or has been closed.
Unresolved(n, t) ==
    \A c \in ConnIdx :
        (conns[c].out /\ conns[c].owner = n /\ conns[c].peer = t)
            => (conns[c].st = "new" /\ conns[c].mate = 0)

\* C9: for an id that never opens, a node makes the first peer.connect() and
\* one retry by the timeout, two in total.
C9_OneRetry ==
    \A n \in Node, t \in PeerIds : Unresolved(n, t) => Attempts(n, t) <= 2

\* The attempt or the session a timer was set for is gone.
Stale(tm) ==
    IF tm.kind = "connectTimeout"
    THEN \/ conns[tm.att].st \in {"closed", "failed"}
         \/ conns[tm.att].gen < peerGen[tm.node]
    ELSE tm.kind = "errorBackoff" /\ conns[tm.conn].gen < peerGen[tm.node]

\* C10: a connect-timeout or error-backoff timer whose attempt has been torn
\* down, or whose session forceReconnect has ended, changes nothing when it
\* fires: no DataConnection is created, no registry entry or pending flag goes.
C10_StaleTimerInert ==
    [][\A tm \in timers \ timers' :
          Stale(tm) => /\ Len(conns') = Len(conns)
                       /\ connections' = connections
                       /\ pending' = pending]_vars

\* ------------------------------------------------ relay of canvas updates
\* C11: the handler of an "updateCanvas" that came in on connection c passes
\* the update on over every other open connection of the node and puts
\* nothing on the way back to the sender of c.
C11_RelaySkipsSender ==
    [][\A c \in ConnIdx :
          (/\ Receivable(c, "updateCanvas")
           /\ conns'[c].inbox = Tail(conns[c].inbox))
          => LET n == conns[c].owner
                 data == Head(conns[c].inbox)
                 fwd == [type |-> "canvasData", canvasId |-> data.canvasId,
                         imageData |-> data.imageData]
             IN /\ conns'[conns[c].mate].inbox = conns[conns[c].mate].inbox
                /\ \A d \in OpenRegistered(conns, connections[n]) \ {c} :
                       conns'[conns[d].mate].inbox =
                           Append(conns[conns[d].mate].inbox, fwd)]_vars

\* Meshes with a cycle, settled as in the canvas scenarios; A saves one
\* drawing.
Triangle == << <<"A", "B">>, <<"B", "C">>, <<"C", "A">> >>
Square   == << <<"A", "B">>, <<"B", "C">>, <<"C", "D">>, <<"D", "A">> >>

InitRelay == \E es \in {Triangle, Square} : InitEstablished(es)

NextRelay ==
    \/ commits = <<>> /\ SaveDrawing("A", "north-0")
    \/ \E l \in loading : SavedImageLoaded(l)
    \/ \E l \in loading : ImageLoaded(l)
    \/ \E c \in ConnIdx : OnUpdateCanvas(c)
    \/ \E c \in ConnIdx : OnCanvasData(c)
    \/ \E c \in ConnIdx : OnRequestAllCanvasData(c)
    \/ \E tm \in timers : Quiescent /\ RequestRetryFires(tm)

\* Handlers that are due run, timers that are due fire.
SpecRelay == InitRelay /\ [][NextRelay]_vars /\ WF_vars(NextRelay)

\* An "updateCanvas" in flight was sent by the node that saved the drawing:
\* what a node passes on is not passed on again.
NotRelayedAgain ==
    \A c \in ConnIdx : \A i \in 1..Len(conns[c].inbox) :
        LET m == conns[c].inbox[i] IN
        m.type = "updateCanvas"
            => commits[ImageOf(m.imageData)].node = conns[conns[c].mate].owner

\* Handling one canvas message puts at most one message on any connection
\* when it is an "updateCanvas" and none when it is a "canvasData".
RelayedOnce ==
    \A c \in ConnIdx :
        (/\ IsOpen(conns, c) /\ conns[c].inbox # <<>>
         /\ Head(conns[c].inbox).type \in {"updateCanvas", "canvasData"}
         /\ conns'[c].inbox = Tail(conns[c].inbox))
        => \A d \in ConnIdx \ {c} :
              Len(conns'[d].inbox) <= Len(conns[d].inbox) +
                  (IF Head(conns[c].inbox).type = "updateCanvas" THEN 1 ELSE 0)

\* C12: the relay of a drawing ends, in meshes with cycles too: a received
\* update is passed on at most once per open connection, what was passed on
\* is not passed on again, and after the one commit the mesh comes to rest for
\* good with no canvas message in flight.
C12_RelayTerminates ==
    /\ []NotRelayedAgain
    /\ [][RelayedOnce]_vars
    /\ (commits # <<>>) ~> []Settled

\* The square at rest after A's drawing went round it: C, opposite A, has it.
C12_Witness ==
    /\ "D" \in Mounted
    /\ Settled
    /\ commits # <<>>
    /\ \A n \in Mounted : store[n]["north-0"].img = 1

\* ------------------------------------------------ avatar scenarios
\* A joins through B's address.  Both walk about; B may reconnect, which
\* closes its connections; a negotiation may fail.  On A's connections a
\* "playerInfo" or "playerLeft" may arrive that names A, the peer of the
\* connection or a third id.  Moves and arrivals are taken one at a time,
\* when the traffic before them has been handled.
InitAvatar == InitMounted({"A", "B"}, [NoUrl EXCEPT !["A"] = << <<"B", 1>> >>])

Named(c) == {IdOf(conns[c].owner), conns[c].peer, <<"C", 1>>}

NoTraffic == \A c \in ConnIdx : conns[c].inbox = <<>>

NextAvatar ==
    \/ \E n \in Node : PeerOnOpen(n)
    \/ \E c \in ConnIdx : PeerOnConnection(c)
    \/ \E c \in ConnIdx : ConnOnOpen(c)
    \/ \E c \in ConnIdx : OnPlayerInfo(c)
    \/ \E c \in ConnIdx : OnRequestPeerList(c)
    \/ \E c \in ConnIdx : OnPeerList(c)
    \/ \E c \in ConnIdx : OnPlayerMove(c)
    \/ \E c \in ConnIdx : OnPlayerLeft(c)
    \/ \E c \in ConnIdx : ConnOnClose(c)
    \/ \E c \in ConnIdx : ConnOnError(c)
    \/ \E tm \in timers : ErrorBackoffFires(tm)
    \/ forceReconnect("B")
    \/ \E n \in Node, p \in Pos : NoTraffic /\ SendPlayerMove(n, p)
    \/ \E c \in ConnIdx, p \in Pos : \E id \in Named(c) :
          NoTraffic /\ conns[c].owner = "A" /\ RemoteSendsPlayerInfo(c, id, p)
    \/ \E c \in ConnIdx : \E id \in Named(c) :
          NoTraffic /\ conns[c].owner = "A" /\ RemoteSendsPlayerLeft(c, id)

SpecAvatar == InitAvatar /\ [][NextAvatar]_vars

\* players[p] / playerModelsRef.current[p] at node n.
Avatar(models, p) == IF p \in DOMAIN models THEN <<models[p]>> ELSE <<>>

\* C13: the avatar a node keeps for a remote id p is created, changed or
\* removed only in a step that handles a message taken from a connection of
\* the node whose far end is p, or that closes such a connection; a
\* "playerInfo" or "playerLeft" that came from another peer leaves it alone.
C13_AvatarWrittenByItsPeer ==
    [][\A n \in Mounted, p \in PeerIds :
          (/\ p # IdOf(n)
           /\ peerGen'[n] = peerGen[n]
           /\ Avatar(playerModels'[n], p) # Avatar(playerModels[n], p))
          => \E c \in ConnIdx :
                /\ conns[c].owner = n
                /\ conns[c].peer = p
                /\ \/ /\ conns[c].inbox # <<>>
                      /\ conns'[c].inbox = Tail(conns[c].inbox)
                   \/ /\ IsOpen(conns, c)
                      /\ conns'[c].st = "closed"]_vars

\* C14: once a node's Peer has its id, the node has its own avatar and its
\* own id among the known peers, whatever arrives: messages ("playerLeft"
\* naming the node included), closes, errors.
C14_SelfAlwaysPresent ==
    \A n \in Mounted :
        peerOpen[n] => /\ IdOf(n) \in DOMAIN playerModels[n]
                       /\ IdOf(n) \in knownPeers[n]

\* C15: handling a "playerMove" taken from an open connection leaves the
\* avatar of the connection's peer at exactly the received position and
\* rotation, whatever the node held for that peer before; so after several
\* moves the avatar is where the last one put it.
C15_MoveApplied ==
    [][\A c \in ConnIdx :
          (/\ Receivable(c, "playerMove")
           /\ conns' = Popped(c))
          => LET n == conns[c].owner
                 p == conns[c].peer
             IN /\ p \in DOMAIN playerModels'[n]
                /\ playerModels'[n][p].pos = Head(conns[c].inbox).pos]_vars

\* C16: when an open connection to a known peer p closes because the far
\* end went away, the close handler removes the registry entry of p and the
\* avatar of p and keeps p among the known peers.
C16_GracefulCloseKeepsKnown ==
    [][\A c \in ConnIdx :
          (/\ IsOpen(conns, c)
           /\ conns'[c].st = "closed"
           /\ peerGen' = peerGen
           /\ conns[c].peer \in knownPeers[conns[c].owner])
          => LET n == conns[c].owner
                 p == conns[c].peer
             IN /\ connections'[n][p] = 0
                /\ p \notin DOMAIN playerModels'[n]
                /\ p \in knownPeers'[n]]_vars

\* C17: when an attempt to reach p ends in a transport error, the error
\* handler leaves p neither in the registry nor among the known peers, so
\* that a peer list naming p passes the tests of the peerList case again.
C17_ErrorForgetsPeer ==
    [][\A c \in ConnIdx :
          (conns[c].st = "new" /\ conns'[c].st = "failed")
          => LET n == conns[c].owner
                 p == conns[c].peer
             IN /\ connections'[n][p] = 0
                /\ p \notin knownPeers'[n]]_vars

\* C18: an error on a connection that is not open changes no avatar and no
\* canvas, and when its 3 s timer fires in the session that set it, with the
\* peer neither registered nor pending, the node calls peer.connect() for
\* that peer again.
C18_ErrorIsRetried ==
    [][/\ \A c \in ConnIdx :
            (conns[c].st = "new" /\ conns'[c].st = "failed")
                => (playerModels' = playerModels /\ store' = store)
       /\ \A tm \in timers \ timers' :
            (/\ tm.kind = "errorBackoff"
             /\ conns[tm.conn].gen = peerGen[tm.node]
             /\ connections[tm.node][conns[tm.conn].peer] = 0
             /\ conns[tm.conn].peer \notin pending[tm.node])
            => /\ Len(conns') = Len(conns) + 1
               /\ conns'[Len(conns')].owner = tm.node
               /\ conns'[Len(conns')].peer = conns[tm.conn].peer
               /\ conns'[Len(conns')].out]_vars

C20_EveryStartJoinsBootstrap ==
    [][(~peerOpen["A"] /\ peerOpen'["A"])
          => \E i \in 1..Len(calls') :
                calls'[i].node = "A" /\ calls'[i].target = <<"B", 1>>]_vars

\* ------------------------------------------------ known peers and registry
\* C21: every id with a registry entry or a pending flag, made by
\* connectToPeerById or by an incoming connection, is among the known peers.
C21_KnownCoversRegistry ==
    \A n \in Mounted, q \in PeerIds :
        (connections[n][q] # 0 \/ q \in pending[n]) => q \in knownPeers[n]

\* A joins through B's address; at any moment a "playerLeft" naming A, B or
\* a third id may arrive on a connection of A whose inbox is empty.
NextList ==
    \/ \E n \in Node : PeerOnOpen(n)
    \/ \E c \in ConnIdx : PeerOnConnection(c) /\ Len(conns') <= MaxConns
    \/ \E c \in ConnIdx : ConnOnOpen(c)
    \/ \E c \in ConnIdx : OnPlayerInfo(c)
    \/ \E c \in ConnIdx : OnRequestPeerList(c)
    \/ \E c \in ConnIdx : OnPeerList(c)
    \/ \E c \in ConnIdx : OnPlayerLeft(c)
    \/ \E c \in ConnIdx : \E id \in Named(c) :
          conns[c].owner = "A" /\ RemoteSendsPlayerLeft(c, id)

SpecList == InitAvatar /\ [][NextList]_vars

\* The ids of a peer list that node n has to connect to.
Wanted(n, peers) ==
    {t \in peers : /\ t # IdOf(n)
                   /\ t \notin knownPeers[n]
                   /\ connections[n][t] = 0
                   /\ t \notin pending[n]}

\* C22: handling a "peerList" calls connectToPeerById once for each listed id
\* that is not the node's own, not known, not registered and not pending, and
\* for no other id, and each of these calls makes one attempt; so the same
\* list a second time makes no call.  Handling a "playerInfo" makes no call
\* and no DataConnection.
C22_PeerListConnectsExactly ==
    [][\A c \in ConnIdx :
          (/\ IsOpen(conns, c) /\ conns[c].inbox # <<>>
           /\ conns'[c].st = "open"
           /\ conns'[c].inbox = Tail(conns[c].inbox))
          => LET n == conns[c].owner
                 m == Head(conns[c].inbox)
             IN /\ m.type = "peerList" =>
                      /\ {calls'[i].target : i \in 1..Len(calls')} = Wanted(n, m.peers)
                      /\ Len(calls') = Cardinality(Wanted(n, m.peers))
                      /\ Len(conns') = Len(conns) + Len(calls')
                /\ m.type = "playerInfo" =>
                      (calls' = <<>> /\ Len(conns') = Len(conns))]_vars

\* ------------------------------------------------ the greeting on open
NextGreet ==
    \/ \E n \in Node : PeerOnOpen(n)
    \/ \E c \in ConnIdx : PeerOnConnection(c) /\ Len(conns') <= MaxConns
    \/ \E c \in ConnIdx, col \in Colors : ConnOpens(c, col)
    \/ \E c \in ConnIdx : OnPlayerInfo(c)
    \/ \E c \in ConnIdx : OnRequestPeerList(c)
    \/ \E c \in ConnIdx : OnPeerList(c)
    \/ \E tm \in timers : ConnectTimeoutFires(tm) /\ Len(conns') <= MaxConns
    \/ \E n \in Node : NoTraffic /\ forceReconnect(n) /\ peerGen'[n] <= MaxGen

SpecGreet == InitAvatar /\ [][NextGreet]_vars

\* The messages a step appends to the inbox of connection k.
Appended(k) ==
    SubSeq(conns'[k].inbox, Len(conns[k].inbox) + 1, Len(conns'[k].inbox))

\* C23: the step in which a connection of node n becomes open appends to the
\* far end's inbox exactly one "playerInfo" carrying n's current peer id and
\* the username, position and colour of n's own avatar, followed by exactly
\* one "requestPeerList"; and the step that handles a "requestPeerList"
\* answers with one "peerList" holding exactly the known peers of the
\* answering node.
C23_GreetingCarriesOwnAvatar ==
    [][\A c \in ConnIdx :
          /\ (conns[c].st = "new" /\ conns'[c].st = "open")
             => LET n  == conns[c].owner
                    me == playerModels[n][IdOf(n)]
                IN IdOf(n) \in DOMAIN playerModels[n] /\ Appended(conns[c].mate) =
                     << [type |-> "playerInfo", id |-> IdOf(n),
                         username |-> me.username, pos |-> me.pos,
                         color |-> me.color],
                        [type |-> "requestPeerList"] >>
          /\ (Receivable(c, "requestPeerList") /\ conns'[c].inbox = Tail(conns[c].inbox)
                /\ conns'[c].st = "open" /\ conns[c].mate # 0
                /\ conns[conns[c].mate].st \in {"new", "open"})
             => Appended(conns[c].mate) =
                  << [type |-> "peerList",
                      peers |-> knownPeers[conns[c].owner]] >>]_vars

\* ------------------------------------------------ asking for the canvases
\* A joins through B's address; B's localStorage holds a drawing made in an
\* earlier session, or none.  The timers run for seconds, a message is
\* handled within milliseconds: a timer fires when nothing is in flight.
InitAsk ==
    \E saved \in {NoData, [img |-> 1, ts |-> StartTime]} :
        /\ peerGen = [n \in Node |-> IF n \in {"A", "B"} THEN 1 ELSE 0]
        /\ peerOpen = [n \in Node |-> FALSE]
        /\ url = [NoUrl EXCEPT !["A"] = << <<"B", 1>> >>]
        /\ knownPeers = [n \in Node |-> {}]
        /\ playerModels = [n \in Node |-> <<>>]
        /\ conns = <<>>
        /\ connections = NoConnections
        /\ pending = [n \in Node |-> {}]
        /\ timers = {}
        /\ store = [n \in Node |-> [id \in CanvasIds |->
                        IF n = "B" /\ id = "north-0" THEN saved ELSE NoData]]
        /\ requested = [n \in Node |-> FALSE]
        /\ loading = {}
        /\ now = StartTime
        /\ commits = <<>>
        /\ calls = <<>>
        /\ FramesStart

NextAsk ==
    \/ \E n \in Node : PeerOnOpen(n)
    \/ \E c \in ConnIdx : PeerOnConnection(c) /\ Len(conns') <= MaxConns
    \/ \E c \in ConnIdx : ConnOnOpen(c)
    \/ \E c \in ConnIdx : OnPlayerInfo(c)
    \/ \E c \in ConnIdx : OnRequestPeerList(c)
    \/ \E c \in ConnIdx : OnPeerList(c)
    \/ \E tm \in timers : Quiescent /\ OpenDelayFires(tm)
    \/ \E tm \in timers : Quiescent /\ JoinRequestFires(tm)
    \/ \E tm \in timers : Quiescent /\ RequestRetryFires(tm)
    \/ \E c \in ConnIdx : OnRequestAllCanvasData(c)
    \/ \E c \in ConnIdx : OnCanvasData(c)
    \/ \E l \in loading : ImageLoaded(l)

SpecAsk == InitAsk /\ [][NextAsk]_vars /\ WF_vars(NextAsk)

\* A timer that will call requestAllCanvasData() is set.
AskTimer(n) ==
    \E tm \in timers : tm.node = n /\ tm.kind \in {"joinRequest", "requestRetry"}

\* C24: a node that has joined asks for the canvases a bounded number of
\* times: from some point on no timer that would send another
\* "requestAllCanvasData" is set, also when no peer ever had a canvas to send.
C24_RequestsStop == <>[](\A n \in Node : ~AskTimer(n))

\* ------------------------------------------------ a local commit
\* C25, first part: the step that completes a local commit stores the new
\* image under the current time and puts on every open connection of the
\* committing node exactly one "updateCanvas" carrying the canvas id, the
\* image and that same time.
CommitSendsStamp ==
    \A l \in loading :
        (l.kind = "commit" /\ l \notin loading')
        => \A c \in OpenRegistered(conns, connections[l.node]) :
              (conns[c].mate # 0 /\ conns[conns[c].mate].st \in {"new", "open"})
              => Appended(conns[c].mate) =
                   << [type |-> "updateCanvas", canvasId |-> l.canvasId,
                       imageData |-> Raw(l.img),
                       updatedAtMillis |-> store'[l.node][l.canvasId].ts] >>

\* C25, second part: the committing node applies last-writer-wins to its own
\* copy: the commit replaces the stored canvas when its time is greater than
\* the stored one, and leaves the stored canvas alone otherwise.
CommitIsLastWriterWins ==
    \A l \in loading :
        (l.kind = "commit" /\ l \notin loading')
        => LET old == store[l.node][l.canvasId] IN
           IF old = NoData \/ now > old.ts
           THEN store'[l.node][l.canvasId] = [img |-> l.img, ts |-> now]
           ELSE store'[l.node][l.canvasId] = old

\* C25: both parts, at every step.
C25_CommitStampedSentAndOrdered ==
    [][CommitSendsStamp /\ CommitIsLastWriterWins]_vars

\* ------------------------------------------------ malformed envelopes
\* An established mesh A - C - B; malformed envelopes and valid "playerInfo"
\* arrive on the connections of C, one at a time, and A may save a drawing.
InitJunk == InitEstablished(Line3)

NextJunk ==
    \/ \E c \in ConnIdx, m \in Malformed :
          conns[c].owner = "C" /\ Quiescent /\ RemoteSendsMalformed(c, m)
    \/ \E c \in ConnIdx, p \in Pos :
          conns[c].owner = "C" /\ Quiescent /\ RemoteSendsPlayerInfo(c, conns[c].peer, p)
    \/ \E c \in ConnIdx : OnUnknownType(c)
    \/ \E c \in ConnIdx : OnCanvasData(c)
    \/ \E c \in ConnIdx : OnUpdateCanvas(c)
    \/ \E c \in ConnIdx : OnPlayerInfo(c)
    \/ \E tm \in timers : Quiescent /\ RequestRetryFires(tm)
    \/ \E c \in ConnIdx : OnRequestAllCanvasData(c)
    \/ commits = <<>> /\ SaveDrawing("A", "north-0")
    \/ \E l \in loading : SavedImageLoaded(l)
    \/ \E l \in loading : ImageLoaded(l)

SpecJunk == InitJunk /\ [][NextJunk]_vars

\* C26: the step that handles a malformed envelope taken from an open
\* connection removes it from that connection's inbox and changes nothing
\* else: registry, known peers, avatars and canvases stay as they are, no
\* message is put on any connection, and the connection stays open, so that
\* what arrives on it later is handled.
C26_MalformedIsDropped ==
    [][\A c \in ConnIdx :
          (/\ IsOpen(conns, c)
           /\ conns[c].inbox # <<>>
           /\ Head(conns[c].inbox) \in Malformed
           /\ conns'[c].inbox = Tail(conns[c].inbox))
          => /\ conns' = Popped(c)
             /\ UNCHANGED <<connections, pending, knownPeers, playerModels,
                            store, loading>>]_vars

\* ------------------------------------------------ the cadence of moves
\* A and B hold an open connection to each other; A's animation loop runs
\* at any frame rate.
InitFrames == InitEstablished(<< <<"A", "B">> >>)

NextFrames ==
    \/ \E gap \in 1..MaxGap, p \in Pos : NoTraffic /\ animate("A", gap, p)
    \/ \E c \in ConnIdx : OnPlayerMove(c)

SpecFrames == InitFrames /\ [][NextFrames]_vars

\* A step puts a "playerMove" on a connection.
MoveSent ==
    \E c \in ConnIdx :
        /\ Len(conns'[c].inbox) > Len(conns[c].inbox)
        /\ conns'[c].inbox[Len(conns'[c].inbox)].type = "playerMove"

\* C27: a "playerMove" goes out only in a frame that comes more than 100 ms
\* after the frame of the previous "playerMove" of the node, whatever the
\* frame rate; a frame that comes earlier sends nothing.
C27_MovesAtMostTenPerSecond ==
    [][\A n \in Node :
          /\ (lastSent'[n] # lastSent[n] /\ lastSent[n] # 0)
                => lastSent'[n] - lastSent[n] > MoveInterval
          /\ (prevTime'[n] # prevTime[n] /\ lastSent[n] # 0
                /\ prevTime'[n] - lastSent[n] <= MoveInterval)
                => ~MoveSent]_vars

\* A second "playerMove" of A is on its way.
C27_Witness ==
    /\ lastSent["A"] > 2 * MoveInterval
    /\ \E c \in ConnIdx : Receivable(c, "playerMove")

\* ------------------------------------------------ stored canvases on load
\* The page of A is opened; localStorage holds, for each canvas, nothing, an
\* item without timestamp, or an item stored at StartTime, and the clock is
\* at StartTime or within AgeWindow of 30 minutes later.
Ages == {0} \cup ((Expiry - AgeWindow)..(Expiry + AgeWindow))

Items == {NoData, [img |-> 1, ts |-> 0], [img |-> 1, ts |-> StartTime],
          [img |-> 2, ts |-> StartTime]}

InitLoad ==
    \E age \in Ages, items \in [CanvasIds -> Items] :
        /\ peerGen = [n \in Node |-> IF n = "A" THEN 1 ELSE 0]
        /\ peerOpen = [n \in Node |-> FALSE]
        /\ url = NoUrl
        /\ knownPeers = [n \in Node |-> {}]
        /\ playerModels = [n \in Node |-> <<>>]
        /\ conns = <<>>
        /\ connections = NoConnections
        /\ pending = [n \in Node |-> {}]
        /\ timers = {}
        /\ store = [n \in Node |-> [id \in CanvasIds |->
                        IF n = "A" THEN items[id] ELSE NoData]]
        /\ requested = [n \in Node |-> FALSE]
        /\ loading = {}
        /\ now = StartTime + age
        /\ commits = <<>>
        /\ calls = <<>>
        /\ FramesStart

NextLoad ==
    \/ \E id \in CanvasIds : PlaceCanvas("A", id)
    \/ \E l \in loading : SavedCanvasDrawn(l)

SpecLoad == InitLoad /\ [][NextLoad]_vars

\* C28: loading a canvas whose stored item is 30 minutes old or older, or has
\* no timestamp, removes the item and shows the default canvas; loading one
\* whose item is younger keeps the item and loads its image; without an item
\* the default canvas is shown.
C28_ExpiredItemIsAbsent ==
    \A id \in CanvasIds :
        LET saved == store["A"][id]
            r == createCanvas(saved, now)
        IN IF saved = NoData \/ saved.ts = 0 \/ now - saved.ts >= Expiry
           THEN r = [item |-> NoData, src |-> 0]
           ELSE r = [item |-> saved, src |-> saved.img]

\* The image of an item one millisecond short of 30 minutes old is loading.
C28_Witness ==
    /\ now - StartTime = Expiry - 1
    /\ \E l \in loading : l.kind = "load" /\ store["A"][l.canvasId].ts = StartTime

\* ------------------------------------------------ superseded connections
\* C29: when node n holds for peer p a live connection d that it accepted
\* after another connection c with p, the close or error of c leaves the
\* registry entry of p at d, keeps p among the known peers and leaves the
\* avatar of p alone.
C29_SupersededCloseIsHarmless ==
    [][\A c \in ConnIdx :
          LET n == conns[c].owner
              p == conns[c].peer
              d == connections[n][p]
          IN (/\ conns[c].st \in {"new", "open"}
              /\ conns'[c].st \in {"closed", "failed"}
              /\ peerGen'[n] = peerGen[n]
              /\ d # 0 /\ d > c
              /\ conns[d].st \in {"new", "open"}
              /\ ~conns[d].out)
             => /\ connections'[n][p] = d
                /\ p \in knownPeers[n] => p \in knownPeers'[n]
                /\ Avatar(playerModels'[n], p) = Avatar(playerModels[n], p)]_vars

\* ------------------------------------------------ entries that never open
\* A joins through B's address; negotiations may fail and timers fire.  The
\* event loop runs every handler and every timer that is due.
NextStuck ==
    \/ \E n \in Node : PeerOnOpen(n)
    \/ \E c \in ConnIdx : PeerOnConnection(c) /\ Len(conns') <= MaxConns
    \/ \E c \in ConnIdx : ConnOnOpen(c)
    \/ \E c \in ConnIdx : OnPlayerInfo(c)
    \/ \E c \in ConnIdx : OnRequestPeerList(c)
    \/ \E c \in ConnIdx : OnPeerList(c)
    \/ \E c \in ConnIdx : ConnOnError(c)
    \/ \E c \in ConnIdx : ConnOnClose(c)
    \/ \E tm \in timers : ErrorBackoffFires(tm) /\ Len(conns') <= MaxConns
    \/ \E tm \in timers : ConnectTimeoutFires(tm) /\ Len(conns') <= MaxConns

SpecStuck == InitAvatar /\ [][NextStuck]_vars /\ WF_vars(NextStuck)

\* Connection c is the registry entry of its peer at its owner and is not open.
RegisteredNotOpen(c) ==
    /\ c \in ConnIdx
    /\ conns[c].st # "open"
    /\ connections[conns[c].owner][conns[c].peer] = c

\* C30: a registry entry that is not open does not stay: the connection opens
\* or the entry is removed, for an outbound attempt and for an accepted
\* inbound connection alike.
C30_NotOpenEntryGoes ==
    \A c \in 1..MaxConns : RegisteredNotOpen(c) ~> ~RegisteredNotOpen(c)

====
